---- MODULE Spec2Model ----
(***************************************************************************)
(* Model of the air-quality dashboard of src/app.py: the AQI sub-index     *)
(* calculator, the category classifier, the upstream fetch and the         *)
(* callbacks that aggregate a location's readings into the info panel.     *)
(*                                                                         *)
(* Numbers.  A raw concentration is an integer count of hundredths (1200   *)
(* is 12.00).  The concentration columns of the breakpoint tables are      *)
(* written in tenths (120 is 12.0, 540 is 54).  Dividing a raw value by    *)
(* Divisor(p) and comparing it with a table concentration c is therefore   *)
(* the integer comparison of the raw count with c * Scale(p).  The         *)
(* interpolation is computed exactly and rounded half-to-even; the probe   *)
(* inputs leave out the exact ties x.5, where the binary floating-point    *)
(* product of the code decides between the two neighbours.                 *)
(***************************************************************************)
EXTENDS Integers, Sequences, FiniteSets, TLC

VARIABLES
    selected_location,  \* dcc.Store "selected-location"
    upstream,           \* what the upstream API holds, per location id
    location_data,      \* the frame fetch_location_data returned last
    latest_data,        \* the rows of latest_data in the last update_info_panel
    panel,              \* the five outputs of update_info_panel
    calls,              \* the calls the last update_info_panel made
    subindex_call,      \* last call of calculate_aqi_subindex (calculator runs)
    category_call,      \* last call of get_aqi_category (classifier runs)
    api_keys,           \* the OPENAQ_API_KEY_i found in the environment
    fetch_call          \* last call of fetch_location_data (fetch runs)

vars == <<selected_location, upstream, location_data, latest_data, panel, calls,
          subindex_call, category_call, api_keys, fetch_call>>

----------------------------------------------------------------------------
(* Bounds of the model *)

\* timestamps are days 0..MaxTime; MaxTime is today (UTC)
MaxTime == 2
\* probe values lie within Near hundredths of every band edge
Near == 2
\* largest AQI value handed to the classifier
MaxAqi == 1000
\* most entries of data['results'] in a fetch run
MaxResults == 2

----------------------------------------------------------------------------
(* 2. AQI calculation *)

TableParameters == {"PM2.5", "PM10", "CO", "O3", "NO2", "SO2"}

\* <<Clow, Chigh, Ilow, Ihigh>>, concentrations in tenths
breakpoints(parameter) ==
    CASE parameter = "PM2.5" ->
           << <<0, 120, 0, 50>>, <<121, 354, 51, 100>>, <<355, 554, 101, 150>>,
              <<555, 1504, 151, 200>>, <<1505, 2504, 201, 300>>,
              <<2505, 3504, 301, 400>>, <<3505, 5004, 401, 500>> >>
      [] parameter = "PM10" ->
           << <<0, 540, 0, 50>>, <<550, 1540, 51, 100>>, <<1550, 2540, 101, 150>>,
              <<2550, 3540, 151, 200>>, <<3550, 4240, 201, 300>>,
              <<4250, 5040, 301, 400>>, <<5050, 6040, 401, 500>> >>
      [] parameter = "CO" ->
           << <<0, 44, 0, 50>>, <<45, 94, 51, 100>>, <<95, 124, 101, 150>>,
              <<125, 154, 151, 200>>, <<155, 304, 201, 300>>,
              <<305, 404, 301, 400>>, <<405, 504, 401, 500>> >>
      [] parameter = "O3" ->
           << <<0, 540, 0, 50>>, <<550, 700, 51, 100>>, <<710, 850, 101, 150>>,
              <<860, 1050, 151, 200>>, <<1060, 2000, 201, 300>> >>
      [] parameter = "NO2" ->
           << <<0, 530, 0, 50>>, <<540, 1000, 51, 100>>, <<1010, 3600, 101, 150>>,
              <<3610, 6490, 151, 200>>, <<6500, 12490, 201, 300>>,
              <<12500, 16490, 301, 400>>, <<16500, 20490, 401, 500>> >>
      [] parameter = "SO2" ->
           << <<0, 350, 0, 50>>, <<360, 750, 51, 100>>, <<760, 1850, 101, 150>>,
              <<1860, 3040, 151, 200>>, <<3050, 6040, 201, 300>>,
              <<6050, 8040, 301, 400>>, <<8050, 10040, 401, 500>> >>
      [] OTHER -> << >>

\* value / 1000.0 for CO, value / 2.0 for O3
Divisor(parameter) ==
    IF parameter = "CO" THEN 1000 ELSE IF parameter = "O3" THEN 2 ELSE 1

\* a table concentration c (tenths) is the raw count c * Scale(p) (hundredths)
Scale(parameter) == 10 * Divisor(parameter)

\* Python's round() of the exact quotient n / d, d > 0: half to even
round(n, d) ==
    LET q == n \div d
        r == n % d
    IN  IF 2 * r < d THEN q
        ELSE IF 2 * r > d THEN q + 1
        ELSE IF q % 2 = 0 THEN q ELSE q + 1

\* the band test of the loop: closed above for the last band only
BandMatches(i, value, parameter) ==
    LET b == breakpoints(parameter)[i]
        s == Scale(parameter)
    IN  IF i = Len(breakpoints(parameter))
        THEN b[1] * s <= value /\ value <= b[2] * s
        ELSE b[1] * s <= value /\ value < b[2] * s

\* ((Ihigh - Ilow) / (Chigh - Clow)) * (value - Clow) + Ilow, rounded
Interpolate(i, value, parameter) ==
    LET b == breakpoints(parameter)[i]
        s == Scale(parameter)
        den == (b[2] - b[1]) * s
    IN  round((b[4] - b[3]) * (value - b[1] * s) + b[3] * den, den)

\* mutant: a value that matches no band gets the last band's index-low
RECURSIVE ScanBands_low(_, _, _)
ScanBands_low(i, value, parameter) ==
    IF i > Len(breakpoints(parameter))
    THEN breakpoints(parameter)[Len(breakpoints(parameter))][3]
    ELSE IF BandMatches(i, value, parameter)
         THEN Interpolate(i, value, parameter)
         ELSE ScanBands_low(i + 1, value, parameter)

RECURSIVE ScanBands(_, _, _)
ScanBands(i, value, parameter) ==
    IF i > Len(breakpoints(parameter))
    THEN breakpoints(parameter)[Len(breakpoints(parameter))][4]
    ELSE IF BandMatches(i, value, parameter)
         THEN Interpolate(i, value, parameter)
         ELSE ScanBands(i + 1, value, parameter)

\* mutant: a parameter without a table is scored by the PM2.5 table
calculate_aqi_subindex_default(value, parameter) ==
    IF parameter \notin TableParameters THEN ScanBands(1, value, "PM2.5")
    ELSE ScanBands(1, value, parameter)

calculate_aqi_subindex(value, parameter) ==
    IF parameter \notin TableParameters THEN 0
    ELSE ScanBands(1, value, parameter)

\* mutant: the first threshold is exclusive
get_aqi_category_strict(aqi_value) ==
    IF aqi_value < 50 THEN <<"Good", "">>
    ELSE IF 51 <= aqi_value /\ aqi_value <= 100 THEN <<"Moderate", "">>
    ELSE IF 101 <= aqi_value /\ aqi_value <= 150 THEN <<"Poor", "">>
    ELSE IF 151 <= aqi_value /\ aqi_value <= 200 THEN <<"Unhealthy", "">>
    ELSE IF 201 <= aqi_value /\ aqi_value <= 300 THEN <<"Severe", "">>
    ELSE <<"Hazardous", "">>

get_aqi_category(aqi_value) ==
    IF aqi_value <= 50
    THEN <<"Good", "The air is fresh and free from toxins. Enjoy outdoor activities without any health concerns.">>
    ELSE IF 51 <= aqi_value /\ aqi_value <= 100
    THEN <<"Moderate", "Air quality is acceptable for most, but sensitive individuals might experience mild discomfort.">>
    ELSE IF 101 <= aqi_value /\ aqi_value <= 150
    THEN <<"Poor", "Breathing may become slightly uncomfortable, especially for those with respiratory issues.">>
    ELSE IF 151 <= aqi_value /\ aqi_value <= 200
    THEN <<"Unhealthy", "This air quality is particularly risky for children, pregnant women, and the elderly. Limit outdoor activities.">>
    ELSE IF 201 <= aqi_value /\ aqi_value <= 300
    THEN <<"Severe", "Prolonged exposure can cause chronic health issues or organ damage. Avoid outdoor activities.">>
    ELSE <<"Hazardous", "Dangerously high pollution levels. Life-threatening health risks with prolonged exposure. Stay indoors and take precautions.">>

----------------------------------------------------------------------------
(* 1. Data loading: the catalogs read at start-up *)

\* locations.csv: the location catalog, in file order
locations_df ==
    << [location_id |-> 101, location_name |-> "Site A"],
       [location_id |-> 102, location_name |-> "Site B.2"] >>

LocationIds == {locations_df[i].location_id : i \in DOMAIN locations_df}
LocationNames == {locations_df[i].location_name : i \in DOMAIN locations_df}

\* all_sensors_data.json keyed by sensor id; an id outside it is unlisted
sensor_parameters ==
    [s \in 1..5 |->
        CASE s = 1 -> [parameter_name |-> "pm25", units |-> "ug/m3"]
          [] s = 2 -> [parameter_name |-> "pm25", units |-> "ug/m3"]
          [] s = 3 -> [parameter_name |-> "no2", units |-> "ppb"]
          [] s = 4 -> [parameter_name |-> "o3", units |-> "ppb"]
          [] s = 5 -> [parameter_name |-> "rh", units |-> "%"]]

\* display names; .map(parameter_mapping).fillna(parameter) keeps other names
parameter_mapping(parameter) ==
    CASE parameter = "pm25" -> "PM2.5"
      [] parameter = "pm10" -> "PM10"
      [] parameter = "no2" -> "NO2"
      [] parameter = "co" -> "CO"
      [] parameter = "so2" -> "SO2"
      [] parameter = "o3" -> "O3"
      [] parameter = "rh" -> "Relative Humidity"
      [] OTHER -> parameter

----------------------------------------------------------------------------
(* The upstream API (the environment) *)

Times == 0..MaxTime
today_utc == MaxTime
yesterday_utc == today_utc - 1

\* the sensors the API reports for a location, in the order of its answer;
\* sensors 1 and 2 both measure pm25, sensor 9 is in no catalog
SensorsAt(location_id) ==
    IF location_id = locations_df[1].location_id THEN <<1, 2, 3, 4, 5, 9>> ELSE << >>

\* the concentration (hundredths) a sensor reports
ReportedValue(sensor) ==
    CASE sensor = 1 -> 2590
      [] sensor = 2 -> 800
      [] sensor = 3 -> 4200
      [] sensor = 4 -> 16980
      [] sensor = 5 -> 6000
      [] OTHER -> 100

NoReport == [value |-> 0, datetime |-> -1]

\* what the API can hold as the latest measurement of a sensor
Entries(sensor) ==
    {NoReport} \cup [value : {ReportedValue(sensor)}, datetime : Times]

Range(seq) == {seq[i] : i \in DOMAIN seq}

\* between two requests at most one sensor has reported
Evolve(held) ==
    {held} \cup UNION {{[held EXCEPT ![sensor] = e] : e \in Entries(sensor)} :
                          sensor \in DOMAIN held}

\* data['results']: one entry per sensor that has reported
RECURSIVE ResultsOf(_, _)
ResultsOf(held, sensors) ==
    IF sensors = << >> THEN << >>
    ELSE LET sensor == Head(sensors)
             rest == ResultsOf(held, Tail(sensors))
         IN  IF held[sensor] = NoReport THEN rest
             ELSE <<[sensorsId |-> sensor, value |-> held[sensor].value,
                     datetime |-> held[sensor].datetime, missing |-> ""]>> \o rest

----------------------------------------------------------------------------
(* fetch_location_data *)

\* the row appended to results_list for one result of the response
ReadingOf(location_id, location_name, result) ==
    LET listed == result.sensorsId \in DOMAIN sensor_parameters
    IN  [location_id |-> location_id,
         location_name |-> location_name,
         datetime_utc |-> result.datetime,
         parameter |-> IF listed THEN sensor_parameters[result.sensorsId].parameter_name
                       ELSE "unknown",
         value |-> result.value,
         unit |-> IF listed THEN sensor_parameters[result.sensorsId].units ELSE "N/A",
         sensor_id |-> result.sensorsId]

\* the date test of the loop: today or yesterday (UTC)
InWindow(result) ==
    result.datetime = today_utc \/ result.datetime = yesterday_utc

\* the exception one pass of the loop raises on an entry that lacks a key
\* (result.missing): 'datetime' is read first, 'value' and 'coordinates' only
\* for an entry inside the window; "" when the pass raises nothing
EntryError(result) ==
    IF result.missing = "datetime" THEN "KeyError"
    ELSE IF InWindow(result) /\ result.missing \in {"value", "coordinates"} THEN "KeyError"
    ELSE ""

\* the loop over data['results']: the exception that leaves it, or its rows
RECURSIVE results_list(_, _, _)
results_list(location_id, location_name, results) ==
    IF results = << >> THEN [raised |-> "", rows |-> << >>]
    ELSE LET result == Head(results)
         IN  IF EntryError(result) # ""
             THEN [raised |-> EntryError(result), rows |-> << >>]
             ELSE LET rest == results_list(location_id, location_name, Tail(results))
                  IN  IF rest.raised # "" THEN rest
                      ELSE IF InWindow(result)
                      THEN [raised |-> "",
                            rows |-> <<ReadingOf(location_id, location_name, result)>>
                                     \o rest.rows]
                      ELSE rest

\* fetch_location_data: what it raises (raised, "" for a normal return) and
\* the frame it returns (rows).  The key is api_keys[api_index % len(api_keys)],
\* evaluated before the try; of the failures inside the try only a
\* requests.exceptions.RequestException (connection error, HTTP error status)
\* is caught, with results_list still empty.
fetch_location_data(location_id, location_name, response) ==
    IF api_keys = << >> THEN [raised |-> "ZeroDivisionError", rows |-> << >>]
    ELSE IF response.status \in {"connection_error", "http_error"}
    THEN [raised |-> "", rows |-> << >>]
    ELSE results_list(location_id, location_name, response.results)

----------------------------------------------------------------------------
(* 5. Callbacks *)

\* str.split('.') of a location name: its pieces between the dots
split(name) ==
    CASE name = "Site B.2" -> <<"Site B", "2">>
      [] OTHER -> <<name>>

\* B. update_markers: one marker per row of the catalog, its id holding the
\* location name, drawn larger when it is the selected one
update_markers ==
    [i \in DOMAIN locations_df |->
        LET loc == locations_df[i].location_name
        IN  [id |-> [type |-> "marker", index |-> loc],
             radius |-> IF loc = selected_location THEN 8 ELSE 2]]

\* ctx.triggered[0]['prop_id'] of the triggers: "<component id>.<property>",
\* where the id of a marker is the JSON text of its dict id.  A prop_id is
\* kept as its pieces between the dots: those of the JSON text (json, empty
\* for a component with a plain id) and the property after the last dot.
NoTrigger == [component |-> "", json |-> << >>, property |-> ""]

DropdownTrigger == [component |-> "location-search", json |-> << >>, property |-> "value"]

MarkerTrigger(marker) ==
    [component |-> "", json |-> split(marker.id.index), property |-> "n_clicks"]

\* json.loads(trigger_id.split('.')[0]): the first piece is the whole JSON text
\* only when the text has no dot; a cut text raises JSONDecodeError
json_loads(trigger_id) ==
    IF Len(trigger_id.json) = 1
    THEN [raised |-> FALSE, index |-> trigger_id.json[1]]
    ELSE [raised |-> TRUE, index |-> ""]

\* update_selected_location with `return search_value` for the dropdown
update_selected_location_raw(trigger_id, search_value, current_value) ==
    IF trigger_id = NoTrigger THEN current_value
    ELSE IF trigger_id.component = "location-search" THEN search_value
    ELSE LET marker_id == json_loads(trigger_id)
         IN  IF marker_id.raised THEN current_value ELSE marker_id.index

\* A. update_selected_location: the value it returns for the store; None is ""
update_selected_location(trigger_id, search_value, current_value) ==
    IF trigger_id = NoTrigger THEN current_value
    ELSE IF trigger_id.component = "location-search"
    THEN IF search_value # "" THEN search_value ELSE current_value
    ELSE LET marker_id == json_loads(trigger_id)
         IN  IF marker_id.raised THEN current_value ELSE marker_id.index

\* A. update_selected_location, called with nothing triggered (page load)
PageLoad ==
    /\ selected_location' = update_selected_location(NoTrigger, "", selected_location)
    /\ UNCHANGED <<upstream, location_data, latest_data, panel, calls,
                   subindex_call, category_call, api_keys, fetch_call>>

\* A. update_selected_location, triggered by the dropdown
DropdownChange(search_value) ==
    /\ selected_location' =
          update_selected_location(DropdownTrigger, search_value, selected_location)
    /\ UNCHANGED <<upstream, location_data, latest_data, panel, calls,
                   subindex_call, category_call, api_keys, fetch_call>>

\* A. update_selected_location, triggered by a click on the marker of index
MarkerClick(index) ==
    /\ \E i \in DOMAIN update_markers :
          /\ update_markers[i].id.index = index
          /\ selected_location' =
                update_selected_location(MarkerTrigger(update_markers[i]), "",
                                         selected_location)
    /\ UNCHANGED <<upstream, location_data, latest_data, panel, calls,
                   subindex_call, category_call, api_keys, fetch_call>>

\* location_data['parameter'].map(parameter_mapping).fillna(...)
RECURSIVE MapParameters(_)
MapParameters(frame) ==
    IF frame = << >> THEN << >>
    ELSE <<[Head(frame) EXCEPT !.parameter = parameter_mapping(Head(frame).parameter)]>>
         \o MapParameters(Tail(frame))

\* the frame with row r put in before index k
InsertAt(frame, k, r) ==
    SubSeq(frame, 1, k - 1) \o <<r>> \o SubSeq(frame, k, Len(frame))

\* where row r may land in a frame sorted by time: behind every row that is
\* not later (the stable place), or right before a row of its own timestamp
\* and parameter
Places(frame, r) ==
    LET stable == 1 + Cardinality({i \in DOMAIN frame : frame[i].datetime_utc <= r.datetime_utc})
    IN  {stable} \cup {i \in DOMAIN frame : /\ frame[i].datetime_utc = r.datetime_utc
                                            /\ frame[i].parameter = r.parameter}

\* mutant: the frame is not sorted before it is grouped
sort_values_unsorted(frame) == {frame}

\* sort_values('datetime_utc').  The default sort is not stable, so rows of
\* one timestamp may come out in any order; of that order only the order of
\* the rows of one parameter reaches groupby().last(), and the frames listed
\* here differ from the stable order in that alone.
RECURSIVE sort_values(_)
sort_values(frame) ==
    IF frame = << >> THEN {<< >>}
    ELSE LET r == frame[Len(frame)]
         IN  UNION {{InsertAt(sorted, k, r) : k \in Places(sorted, r)} :
                      sorted \in sort_values(SubSeq(frame, 1, Len(frame) - 1))}

\* groupby('parameter').last(): per parameter, the last row of the frame
groupby_last(frame) ==
    {frame[i] : i \in {k \in DOMAIN frame :
        \A j \in DOMAIN frame : frame[j].parameter = frame[k].parameter => j <= k}}

\* latest_data with its aqi_subindex column
WithSubindex(rows) ==
    {[parameter |-> r.parameter, value |-> r.value, unit |-> r.unit,
      datetime_utc |-> r.datetime_utc, sensor_id |-> r.sensor_id,
      aqi_subindex |-> calculate_aqi_subindex(r.value, r.parameter)] : r \in rows}

\* mutant: the sub-index of the first row instead of the maximum
current_aqi_first(rows) ==
    (CHOOSE r \in rows : TRUE).aqi_subindex

\* latest_data['aqi_subindex'].max()
current_aqi(rows) ==
    CHOOSE m \in {r.aqi_subindex : r \in rows} : \A r \in rows : r.aqi_subindex <= m

\* mutant: the empty frame is shown as an AQI of 0 and classified
NoDataPanel_classified(location) ==
    [title |-> location,
     last_updated |-> <<"No recent updates">>,
     gauge |-> [value |-> 0, title |-> "AQI"],
     category_text |-> get_aqi_category(0),
     parameters |-> {}]

\* the outputs returned when location_data.empty
NoDataPanel(location) ==
    [title |-> location,
     last_updated |-> <<"No recent updates">>,
     gauge |-> [value |-> 0, title |-> "No Data Available"],
     category_text |-> <<"No Data Available",
                         "No current air quality data available for this location.">>,
     parameters |-> {}]

\* the outputs returned for a frame with rows
DataPanel(location, frame, rows) ==
    [title |-> location,
     last_updated |-> <<"Last Update", frame[1].datetime_utc>>,
     gauge |-> [value |-> current_aqi(rows), title |-> "AQI"],
     category_text |-> get_aqi_category(current_aqi(rows)),
     parameters |-> {<<r.parameter, r.value, r.unit>> : r \in rows}]

\* the location whose data update_info_panel requests
RequestedLocation ==
    IF selected_location = "" THEN locations_df[1].location_name ELSE selected_location

RequestedRow ==
    locations_df[CHOOSE i \in DOMAIN locations_df :
                    locations_df[i].location_name = RequestedLocation]

\* C. update_info_panel, on a change of the store or an interval tick.  The
\* request is answered from what the API holds then (held), or fails with
\* that status.  When fetch_location_data raises, so does the callback, and
\* its outputs stay as they are.
update_info_panel(status, held) ==
    LET location == RequestedLocation
        location_row == RequestedRow
        fetched == fetch_location_data(location_row.location_id, location,
                    [status |-> status,
                     results |-> ResultsOf(held, SensorsAt(location_row.location_id))])
    IN  /\ upstream' = [upstream EXCEPT ![location_row.location_id] = held]
        /\ IF fetched.raised # ""
           THEN UNCHANGED <<location_data, latest_data, panel, calls>>
           ELSE /\ location_data' = fetched.rows
                /\ IF location_data' = << >>
                   THEN /\ latest_data' = {}
                        /\ panel' = NoDataPanel(location)
                        /\ calls' = [calculate_aqi_subindex |-> 0, get_aqi_category |-> 0]
                   ELSE \E sorted \in sort_values(MapParameters(location_data')) :
                          /\ latest_data' = WithSubindex(groupby_last(sorted))
                          /\ panel' = DataPanel(location, location_data', latest_data')
                          /\ calls' = [calculate_aqi_subindex |-> Cardinality(latest_data'),
                                       get_aqi_category |-> 1]
        /\ UNCHANGED <<selected_location, subindex_call, category_call, api_keys, fetch_call>>

----------------------------------------------------------------------------
(* Runs of the calculator and of the classifier on their own *)

ProbeParameters == TableParameters \cup {"Relative Humidity", "unknown"}

\* the interpolation of a value in band i is an exact tie x.5
InterpolationTie(i, value, parameter) ==
    LET b == breakpoints(parameter)[i]
        s == Scale(parameter)
        den == (b[2] - b[1]) * s
    IN  2 * (((b[4] - b[3]) * (value - b[1] * s)) % den) = den

\* raw values around every band edge, the middle of every band, and one far
\* beyond the last band; below the first edge they are negative
ProbeValues(parameter) ==
    IF parameter \in TableParameters
    THEN LET bands == breakpoints(parameter)
             s == Scale(parameter)
             around == {bands[i][j] * s + d : i \in DOMAIN bands, j \in 1..2, d \in -Near..Near}
             middle == {((bands[i][1] + bands[i][2]) * s) \div 2 : i \in DOMAIN bands}
             all == around \cup middle \cup {1000000000}
         IN  {v \in all : \A i \in DOMAIN bands :
                 BandMatches(i, v, parameter) => ~InterpolationTie(i, v, parameter)}
    ELSE {k + d : k \in {0, 6000, 1000000000}, d \in -Near..Near}

\* one call calculate_aqi_subindex(value, parameter)
Calculate(value, parameter) ==
    /\ subindex_call' = [parameter |-> parameter, value |-> value,
                         result |-> calculate_aqi_subindex(value, parameter)]
    /\ UNCHANGED <<selected_location, upstream, location_data, latest_data, panel,
                   calls, category_call, api_keys, fetch_call>>

\* one call get_aqi_category(aqi_value)
Classify(aqi_value) ==
    /\ category_call' = [aqi_value |-> aqi_value, result |-> get_aqi_category(aqi_value)]
    /\ UNCHANGED <<selected_location, upstream, location_data, latest_data, panel,
                   calls, subindex_call, api_keys, fetch_call>>

\* the responses of the upstream API in the fetch runs: a failed request, or
\* up to MaxResults entries, each complete or lacking one key
FetchEntries ==
    [sensorsId : {1}, value : {ReportedValue(1)}, datetime : Times,
     missing : {"", "datetime", "value", "coordinates"}]

RECURSIVE SeqsUpTo(_, _)
SeqsUpTo(S, n) ==
    IF n = 0 THEN {<< >>}
    ELSE LET shorter == SeqsUpTo(S, n - 1)
         IN  shorter \cup {Append(q, x) : q \in {t \in shorter : Len(t) = n - 1}, x \in S}

FetchResponses ==
    [status : {"connection_error", "http_error"}, results : {<< >>}]
    \cup [status : {"ok"}, results : SeqsUpTo(FetchEntries, MaxResults)]

NotFetched == [raised |-> "", rows |-> << >>, returned |-> FALSE]

\* one call fetch_location_data(location_id, location_name) for the first
\* location, answered by fetch_call.response
Fetch ==
    /\ fetch_call.outcome = NotFetched
    /\ LET row == locations_df[1]
           fetched == fetch_location_data(row.location_id, row.location_name,
                                          fetch_call.response)
       IN  fetch_call' = [fetch_call EXCEPT !.outcome =
                             [raised |-> fetched.raised, rows |-> fetched.rows,
                              returned |-> fetched.raised = ""]]
    /\ UNCHANGED <<selected_location, upstream, location_data, latest_data, panel,
                   calls, subindex_call, category_call, api_keys>>

----------------------------------------------------------------------------
(* The dashboard *)

NoCall == [parameter |-> "", value |-> 0, result |-> -1]
NoClass == [aqi_value |-> -1, result |-> <<"", "">>]

\* the panel before update_info_panel has run
NotRendered ==
    [title |-> "",
     last_updated |-> << >>,
     gauge |-> [value |-> 0, title |-> ""],
     category_text |-> <<"", "">>,
     parameters |-> {}]

Init ==
    /\ selected_location = locations_df[1].location_name
    /\ upstream = [id \in LocationIds |-> [s \in Range(SensorsAt(id)) |-> NoReport]]
    /\ location_data = << >>
    /\ latest_data = {}
    /\ panel = NotRendered
    /\ calls = [calculate_aqi_subindex |-> 0, get_aqi_category |-> 0]
    /\ subindex_call = NoCall
    /\ category_call = NoClass
    /\ api_keys = <<"key 1">>
    /\ fetch_call = [response |-> [status |-> "ok", results |-> << >>],
                     outcome |-> NotFetched]

Next ==
    \/ PageLoad
    \/ \E search_value \in LocationNames \cup {""} : DropdownChange(search_value)
    \/ \E index \in LocationNames : MarkerClick(index)
    \/ \E held \in Evolve(upstream[RequestedRow.location_id]) : update_info_panel("ok", held)
    \/ \E status \in {"connection_error", "http_error"} :
         update_info_panel(status, upstream[RequestedRow.location_id])

Spec == Init /\ [][Next]_vars

NextSubindex ==
    \E parameter \in ProbeParameters : \E value \in ProbeValues(parameter) :
        Calculate(value, parameter)

SpecSubindex == Init /\ [][NextSubindex]_vars

NextCategory == \E aqi_value \in 0..MaxAqi : Classify(aqi_value)

SpecCategory == Init /\ [][NextCategory]_vars

\* a fetch run: the keys configured and the response are drawn at the start
InitFetch ==
    /\ selected_location = locations_df[1].location_name
    /\ upstream = [id \in LocationIds |-> [s \in Range(SensorsAt(id)) |-> NoReport]]
    /\ location_data = << >>
    /\ latest_data = {}
    /\ panel = NotRendered
    /\ calls = [calculate_aqi_subindex |-> 0, get_aqi_category |-> 0]
    /\ subindex_call = NoCall
    /\ category_call = NoClass
    /\ api_keys \in {<< >>, <<"key 1">>, <<"key 1", "key 2">>}
    /\ fetch_call \in [response : FetchResponses, outcome : {NotFetched}]

NextFetch == Fetch

SpecFetch == InitFetch /\ [][NextFetch]_vars

----------------------------------------------------------------------------
(* Properties *)

Categories == {"Good", "Moderate", "Poor", "Unhealthy", "Severe", "Hazardous"}

Rendered == panel # NotRendered

\* C1: for PM2.5 the value 12.0 yields sub-index 50 and the value 12.1 yields
\* sub-index 51 (no gap or overlap at the band boundary).
C1_BoundaryExact ==
    subindex_call.parameter = "PM2.5" =>
        /\ subindex_call.value = 1200 => subindex_call.result = 50
        /\ subindex_call.value = 1210 => subindex_call.result = 51

\* C2: for every parameter with a table and values v1 <= v2, the sub-index
\* of v1 is at most the sub-index of v2.
C2_Monotone ==
    [][(/\ subindex_call.parameter \in TableParameters
        /\ subindex_call'.parameter = subindex_call.parameter
        /\ subindex_call.value <= subindex_call'.value)
       => subindex_call.result <= subindex_call'.result]_vars

\* the bands of a table are in ascending order
Ascending(parameter) ==
    LET bands == breakpoints(parameter)
    IN  /\ \A i \in DOMAIN bands : bands[i][1] < bands[i][2] /\ bands[i][3] < bands[i][4]
        /\ \A i, j \in DOMAIN bands :
              i < j => bands[i][2] < bands[j][1] /\ bands[i][4] < bands[j][3]

\* C3: the bands of every table are ascending, and every normalized value
\* between the first band's low and the last band's high concentration is
\* matched by exactly one band.
C3_ExactlyOneBand ==
    subindex_call.parameter \in TableParameters =>
        LET parameter == subindex_call.parameter
            bands == breakpoints(parameter)
            s == Scale(parameter)
        IN  /\ Ascending(parameter)
            /\ (bands[1][1] * s <= subindex_call.value
                  /\ subindex_call.value <= bands[Len(bands)][2] * s)
               => Cardinality({i \in DOMAIN bands :
                                 BandMatches(i, subindex_call.value, parameter)}) = 1

\* C4: the raw CO value 4400 is normalized to 4.4, the upper concentration of
\* the first CO band, and its sub-index is 50.
C4_CoBoundary ==
    (subindex_call.parameter = "CO" /\ subindex_call.value = 440000) =>
        /\ subindex_call.value = breakpoints("CO")[1][2] * Scale("CO")
        /\ subindex_call.result = breakpoints("CO")[1][4]

\* C5: with readings, the overall AQI is the maximum of the per-parameter
\* sub-indices and the category shown is get_aqi_category of that maximum.
C5_DominantPollutant ==
    (Rendered /\ latest_data # {}) =>
        /\ \A r \in latest_data :
              /\ r.aqi_subindex = calculate_aqi_subindex(r.value, r.parameter)
              /\ r.aqi_subindex <= panel.gauge.value
        /\ \E r \in latest_data : r.aqi_subindex = panel.gauge.value
        /\ panel.category_text = get_aqi_category(panel.gauge.value)
        /\ {<<r.parameter, r.aqi_subindex>> : r \in latest_data}
              = {<<"PM2.5", 80>>, <<"NO2", 40>>, <<"O3", 150>>}
           => panel.gauge.value = 150 /\ panel.category_text[1] = "Poor"

C5_Witness ==
    /\ Rendered
    /\ {<<r.parameter, r.aqi_subindex>> : r \in latest_data}
          = {<<"PM2.5", 80>>, <<"NO2", 40>>, <<"O3", 150>>}
    /\ panel.gauge.value = 150
    /\ panel.category_text[1] = "Poor"

\* C6: every integer AQI value of 0..MaxAqi gets exactly one category: 0-50
\* Good, 51-100 Moderate, 101-150 Poor, 151-200 Unhealthy, 201-300 Severe,
\* above 300 Hazardous.
C6_CategoryPartition ==
    category_call # NoClass =>
        LET a == category_call.aqi_value
            label == category_call.result[1]
        IN  /\ label \in Categories
            /\ label = "Good" <=> (0 <= a /\ a <= 50)
            /\ label = "Moderate" <=> (51 <= a /\ a <= 100)
            /\ label = "Poor" <=> (101 <= a /\ a <= 150)
            /\ label = "Unhealthy" <=> (151 <= a /\ a <= 200)
            /\ label = "Severe" <=> (201 <= a /\ a <= 300)
            /\ label = "Hazardous" <=> (a > 300)

C6_Witness ==
    /\ category_call.aqi_value = 50
    /\ category_call.result[1] = "Good"

\* C7: the overall AQI and category are determined only by the readings whose
\* parameter has a table; readings without a table yield no sub-index and
\* take no part, also when no reading has a table.
C7_TablelessExcluded ==
    (Rendered /\ location_data # << >>) =>
        LET tabled == {r \in latest_data : r.parameter \in TableParameters}
        IN  IF tabled = {}
            THEN panel.category_text[1] \notin Categories
            ELSE /\ \A r \in tabled : r.aqi_subindex <= panel.gauge.value
                 /\ \E r \in tabled : r.aqi_subindex = panel.gauge.value
                 /\ panel.category_text = get_aqi_category(panel.gauge.value)

\* C8: with an empty reading set update_info_panel returns the no-data
\* result, calls neither the sub-index calculation nor the classifier, and
\* reports no category among Good..Hazardous.
C8_NoData ==
    (Rendered /\ location_data = << >>) =>
        /\ panel.gauge.title = "No Data Available"
        /\ panel.category_text[1] = "No Data Available"
        /\ panel.category_text[1] \notin Categories
        /\ panel.last_updated = <<"No recent updates">>
        /\ panel.parameters = {}
        /\ latest_data = {}
        /\ calls.calculate_aqi_subindex = 0
        /\ calls.get_aqi_category = 0

\* the API holds a measurement for the location shown, and the frame is empty
C8_Witness ==
    /\ Rendered
    /\ location_data = << >>
    /\ panel.title = locations_df[1].location_name
    /\ \E s \in DOMAIN upstream[locations_df[1].location_id] :
          upstream[locations_df[1].location_id][s] # NoReport
    /\ panel.category_text[1] = "No Data Available"

\* the rows of the fetched frame whose display parameter is p
ReadingsOf(p) ==
    {i \in DOMAIN location_data : parameter_mapping(location_data[i].parameter) = p}

\* C9: the result holds exactly one entry per distinct display parameter of
\* the input, and when the readings of a parameter have pairwise different
\* timestamps its entry is the reading with the maximum timestamp.
C9_LatestPerParameter ==
    (Rendered /\ location_data # << >>) =>
        LET parameters == {parameter_mapping(location_data[i].parameter) :
                             i \in DOMAIN location_data}
        IN  /\ {r.parameter : r \in latest_data} = parameters
            /\ Cardinality(latest_data) = Cardinality(parameters)
            /\ panel.parameters = {<<r.parameter, r.value, r.unit>> : r \in latest_data}
            /\ \A p \in parameters :
                  (\A i, j \in ReadingsOf(p) :
                      i # j => location_data[i].datetime_utc # location_data[j].datetime_utc)
                  => \E i \in ReadingsOf(p) :
                        /\ \A j \in ReadingsOf(p) :
                              location_data[j].datetime_utc <= location_data[i].datetime_utc
                        /\ \E r \in latest_data :
                              /\ r.parameter = p
                              /\ r.datetime_utc = location_data[i].datetime_utc
                              /\ r.value = location_data[i].value
                              /\ r.sensor_id = location_data[i].sensor_id

\* two PM2.5 readings, the later one first in the input, and the later one kept
C9_Witness ==
    /\ Rendered
    /\ Len(location_data) >= 3
    /\ \E i, j \in ReadingsOf("PM2.5") :
          /\ i < j
          /\ location_data[i].datetime_utc > location_data[j].datetime_utc
          /\ \E r \in latest_data :
                r.parameter = "PM2.5" /\ r.sensor_id = location_data[i].sensor_id

\* C10: for a parameter without a table calculate_aqi_subindex returns 0 for
\* every value, negative and very large ones included.
C10_UnknownParameterZero ==
    (subindex_call # NoCall /\ subindex_call.parameter \notin TableParameters) =>
        subindex_call.result = 0

C10_Witness ==
    /\ subindex_call.parameter = "Relative Humidity"
    /\ subindex_call.value > 6000
    /\ subindex_call.result = 0

\* C11: an out-of-domain concentration is clamped to the nearest bound: a
\* value below the first band's low concentration yields the first band's
\* index-low, a value above the last band's high concentration yields the
\* last band's index-high.
C11_ClampedToNearest ==
    subindex_call.parameter \in TableParameters =>
        LET bands == breakpoints(subindex_call.parameter)
            s == Scale(subindex_call.parameter)
        IN  /\ subindex_call.value < bands[1][1] * s
                  => subindex_call.result = bands[1][3]
            /\ subindex_call.value > bands[Len(bands)][2] * s
                  => subindex_call.result = bands[Len(bands)][4]

\* the index-high of the last band, as the claim lists it
LastIndexHigh(parameter) == IF parameter = "O3" THEN 300 ELSE 500

\* C13: for a parameter with a table every value yields an integer, and a
\* value that matches no band yields the index-high of the last band (500,
\* and 300 for O3).
C13_TotalWithCeiling ==
    subindex_call.parameter \in TableParameters =>
        LET parameter == subindex_call.parameter
            bands == breakpoints(parameter)
        IN  /\ subindex_call.result \in 0..LastIndexHigh(parameter)
            /\ (\A i \in DOMAIN bands : ~BandMatches(i, subindex_call.value, parameter))
                  => subindex_call.result = LastIndexHigh(parameter)

\* an O3 value beyond the last band
C13_Witness ==
    /\ subindex_call.parameter = "O3"
    /\ subindex_call.value > breakpoints("O3")[5][2] * Scale("O3")
    /\ subindex_call.result = 300

\* the request failed, an entry lacks a key, or no API key is configured
FetchFailure ==
    \/ api_keys = << >>
    \/ fetch_call.response.status # "ok"
    \/ \E i \in DOMAIN fetch_call.response.results :
          fetch_call.response.results[i].missing # ""

\* C12: for every failure of the upstream request (connection error, HTTP
\* error status, malformed or incomplete entry, no API key configured)
\* fetch_location_data propagates nothing and returns an empty reading set.
C12_FailureGivesEmpty ==
    (fetch_call.outcome # NotFetched /\ FetchFailure) =>
        /\ fetch_call.outcome.returned
        /\ fetch_call.outcome.raised = ""
        /\ fetch_call.outcome.rows = << >>

\* C14: after any sequence of dropdown selections, marker clicks and interval
\* ticks the store holds the name of a catalog location and is never empty; a
\* cleared dropdown or an unparsable marker id leaves it unchanged, a click on
\* a marker (with a parsable id) sets it to the marker's location name, and a
\* refresh of the panel does not change it.
C14_SelectionInCatalog ==
    /\ [](selected_location \in LocationNames /\ selected_location # "")
    /\ [][/\ DropdownChange("") => selected_location' = selected_location
          /\ \A loc \in LocationNames :
                MarkerClick(loc) =>
                   selected_location' = IF Len(split(loc)) = 1 THEN loc
                                        ELSE selected_location
          /\ (upstream' # upstream \/ panel' # panel \/ location_data' # location_data)
                => selected_location' = selected_location]_vars

\* the second location was selected and its panel rendered, and the store
\* holds the first location again
C14_Witness ==
    /\ panel.title = locations_df[2].location_name
    /\ selected_location = locations_df[1].location_name

====
